---- MODULE Spec2Model ----
(***************************************************************************)
(* Verification model of the Fidoo extractor (src/main.py) and its driver  *)
(* (src/fidoo_driver/client.py).                                           *)
(*                                                                         *)
(* Three specifications share this module:                                 *)
(*   SpecNorm  - extract_nested / detect_primary_key on bounded batches    *)
(*   SpecFetch - Fidoo7Driver.read / read_batched against a server         *)
(*   Spec      - main(): primary phase, dependent phase, export phase      *)
(*                                                                         *)
(* Strings that the code inspects character by character (field names,     *)
(* table names) are sequences of one-character strings.  JSON values are   *)
(* tagged pairs <<tag, payload>>; a dict is a sequence of <<key, value>>   *)
(* pairs in insertion order, as a Python dict is.                          *)
(***************************************************************************)
EXTENDS Integers, Sequences, FiniteSets, TLC

VARIABLES
    n_pc,        \* SpecNorm: "call" before extract_nested ran, "done" after
    n_records,   \* SpecNorm: the batch handed to extract_nested
    n_table,     \* SpecNorm: the table name handed to extract_nested
    n_result,    \* SpecNorm: what extract_nested returned or raised
    f_mode,      \* SpecFetch: "read" (one read call) or "batched" (read_batched)
    f_arg,       \* SpecFetch: max_retries as given to Fidoo7Driver.__init__
    f_limit,     \* SpecFetch: limit / batch_size of the call
    f_pc,        \* SpecFetch: "start", "sending" (inside session.post), "done"
    f_left,      \* SpecFetch: retries the Retry object of this post has left
    f_offset,    \* SpecFetch: read_batched's offset_token (Null: none)
    f_log,       \* SpecFetch: every request sent: [offset, resp]
    f_yielded,   \* SpecFetch: the batches read_batched has yielded
    f_result,    \* SpecFetch: what the call returned or raised
    m_pc,        \* Spec: where main() is: "start", "primary", "dependent",
                 \*       "export", "finally", "state", "summary", "exit0", "exit1"
    m_objects,   \* Spec: parameters['objects'], the request
    m_include_dependent, \* Spec: parameters['include_dependent']
    m_i,         \* Spec: position of the running loop in its list
    m_opened,    \* Spec: driver constructed and duckdb.connect returned
    m_closed,    \* Spec: connections closed and the working file removed
    m_object_counts, \* Spec: object_counts
    m_total_records, \* Spec: total_records
    m_store,     \* Spec: the tables of the working DuckDB file
    m_pending,   \* Spec: the exception on its way to main's outer handler
    m_state,     \* Spec: what was written to the state file, in order
    m_sink,      \* Spec: the tables handed to the output, with key and rows
    m_hist       \* Spec: history of the export calls main has made

normVars == <<n_pc, n_records, n_table, n_result>>

fetchVars == <<f_mode, f_arg, f_limit, f_pc, f_left, f_offset, f_log, f_yielded, f_result>>

mainVars == <<m_pc, m_objects, m_include_dependent, m_i, m_opened, m_closed,
              m_object_counts, m_total_records, m_store, m_pending, m_state,
              m_sink, m_hist>>

\* what each specification leaves alone
notNorm  == <<fetchVars, mainVars>>
notFetch == <<normVars, mainVars>>
notMain  == <<normVars, fetchVars>>

vars == <<n_pc, n_records, n_table, n_result,
          f_mode, f_arg, f_limit, f_pc, f_left, f_offset, f_log, f_yielded, f_result,
          m_pc, m_objects, m_include_dependent, m_i, m_opened, m_closed,
          m_object_counts, m_total_records, m_store, m_pending, m_state,
          m_sink, m_hist>>

-----------------------------------------------------------------------------
(* Bounds of the model.                                                    *)

\* longest array among the generated field values
MaxArr == 2
\* longest batch of records handed to extract_nested
MaxBatch == 2
\* depth of recursion at which the interpreter gives up (RecursionError);
\* deeper than any finite input of the model needs
RecursionLimit == 3
\* largest max_retries a driver of the model is constructed with
MaxRetriesArg == 3
\* pages with a continuation token the server hands out before the last page
MaxTokenPages == 2

-----------------------------------------------------------------------------
(* Names.                                                                  *)

K_id        == <<"i", "d">>
K_Id        == <<"I", "d">>
K_parent_id == <<"p", "a", "r", "e", "n", "t", "_", "i", "d">>
K_idx       == <<"i", "d", "x">>
K_value     == <<"v", "a", "l", "u", "e">>
K_f         == <<"f">>
K_g         == <<"g">>
K_a         == <<"a">>
T_user      == <<"u", "s", "e", "r">>
Sep         == <<"_", "_">>

\* Python's None where a name is expected (no name is spelled like this)
K_tags == <<"t", "a", "g", "s">>
K_address == <<"a", "d", "d", "r", "e", "s", "s">>
K_city == <<"c", "i", "t", "y">>
T_users == <<"u", "s", "e", "r", "s">>
None == <<"None">>

EndsWith(s, suf) ==
    /\ Len(s) >= Len(suf)
    /\ SubSeq(s, Len(s) - Len(suf) + 1, Len(s)) = suf

StartsWith(s, pre) ==
    /\ Len(s) >= Len(pre)
    /\ SubSeq(s, 1, Len(pre)) = pre

\* str.rstrip('s')
RECURSIVE RStripS(_)
RStripS(s) ==
    IF s # <<>> /\ s[Len(s)] = "s" THEN RStripS(SubSeq(s, 1, Len(s) - 1)) ELSE s

-----------------------------------------------------------------------------
(* JSON values and dicts.                                                  *)

Null     == <<"null", <<>>>>
S(x)     == <<"str", x>>
I(n)     == <<"int", n>>
O(d)     == <<"obj", d>>
A(l)     == <<"arr", l>>

IsDict(v) == v[1] = "obj"
IsList(v) == v[1] = "arr"
\* Python truthiness of a dict or list: non-empty
Truthy(v) == v[2] # <<>>
IsScalarOrNull(v) == v[1] \in {"null", "str", "int"}

DictHas(d, k) == \E i \in 1..Len(d) : d[i][1] = k

\* dict.get(k): None when the key is absent
DictGet(d, k) ==
    IF DictHas(d, k) THEN d[CHOOSE i \in 1..Len(d) : d[i][1] = k][2] ELSE Null

\* d[k] = v: an existing key keeps its position
DictSet(d, k, v) ==
    IF DictHas(d, k)
    THEN [i \in 1..Len(d) |-> IF d[i][1] = k THEN <<k, v>> ELSE d[i]]
    ELSE Append(d, <<k, v>>)

\* {**a, **b} and a.update(b)
RECURSIVE DictMerge(_, _)
DictMerge(a, b) ==
    IF b = <<>> THEN a
    ELSE DictMerge(DictSet(a, b[1][1], b[1][2]), Tail(b))

DictKeys(d) == [i \in 1..Len(d) |-> d[i][1]]

RECURSIVE Concat(_)
Concat(ss) == IF ss = <<>> THEN <<>> ELSE ss[1] \o Concat(Tail(ss))

-----------------------------------------------------------------------------
(* detect_primary_key, src/main.py:215-238                                 *)

FirstIn(cands, d) ==
    IF \E i \in 1..Len(cands) : DictHas(d, cands[i])
    THEN cands[CHOOSE i \in 1..Len(cands) :
                 /\ DictHas(d, cands[i])
                 /\ \A j \in 1..(i - 1) : ~DictHas(d, cands[j])]
    ELSE None

\* a slip: id is tried before the table's own key name
detect_primary_key_IdFirst(records, table_name) ==
    IF records = <<>> THEN None
    ELSE LET candidates == << K_id,
                              table_name \o K_Id,
                              RStripS(table_name) \o K_Id,
                              K_Id >>
             first_record == records[1]
             hit          == FirstIn(candidates, first_record)
             keys         == DictKeys(first_record)
         IN  IF hit # None THEN hit
             ELSE IF \E i \in 1..Len(keys) : EndsWith(keys[i], K_Id)
                  THEN keys[CHOOSE i \in 1..Len(keys) :
                              /\ EndsWith(keys[i], K_Id)
                              /\ \A j \in 1..(i - 1) : ~EndsWith(keys[j], K_Id)]
                  ELSE None

detect_primary_key(records, table_name) ==
    IF records = <<>> THEN None
    ELSE LET candidates == << table_name \o K_Id,
                              RStripS(table_name) \o K_Id,
                              K_id,
                              K_Id >>
             first_record == records[1]
             hit          == FirstIn(candidates, first_record)
             keys         == DictKeys(first_record)
         IN  IF hit # None THEN hit
             ELSE IF \E i \in 1..Len(keys) : EndsWith(keys[i], K_Id)
                  THEN keys[CHOOSE i \in 1..Len(keys) :
                              /\ EndsWith(keys[i], K_Id)
                              /\ \A j \in 1..(i - 1) : ~EndsWith(keys[j], K_Id)]
                  ELSE None

-----------------------------------------------------------------------------
(* extract_nested, src/main.py:241-315                                     *)

Returned(main, nested) == [err |-> "none", main |-> main, nested |-> nested]
Raised(e)              == [err |-> e, main |-> <<>>, nested |-> <<>>]

\* lines 269 and 278: the value goes to a satellite table
IsNestedValue(v) == (IsDict(v) /\ Truthy(v)) \/ (IsList(v) /\ Truthy(v))

\* variant: an empty object or array stays in the flat record as it is
MainOf_KeepsEmpty(record) ==
    SelectSeq(record, LAMBDA e : ~IsNestedValue(e[2]))

\* lines 298-303: what stays in the flat record
MainOf(record) ==
    LET kept == SelectSeq(record, LAMBDA e : ~IsNestedValue(e[2]))
    IN  [i \in 1..Len(kept) |->
            IF IsDict(kept[i][2]) \/ IsList(kept[i][2])
            THEN <<kept[i][1], Null>>
            ELSE kept[i]]

\* line 287: {"parent_id": pk_value, "idx": i, **item} needs item to be a mapping
ItemTypeError(v) ==
    /\ IsList(v) /\ Truthy(v) /\ IsDict(v[2][1])
    /\ \E i \in 1..Len(v[2]) : ~IsDict(v[2][i])

\* a slip: idx counts from one
NestedRecordsOf_IdxFromOne(value, pk_value) ==
    IF IsDict(value)
    THEN << DictMerge(<< <<K_parent_id, pk_value>> >>, value[2]) >>
    ELSE IF IsDict(value[2][1])
    THEN [i \in 1..Len(value[2]) |->
            DictMerge(<< <<K_parent_id, pk_value>>, <<K_idx, I(i)>> >>,
                      IF IsDict(value[2][i]) THEN value[2][i][2] ELSE <<>>)]
    ELSE [i \in 1..Len(value[2]) |->
            << <<K_parent_id, pk_value>>, <<K_idx, I(i)>>,
               <<K_value, value[2][i]>> >>]

\* lines 275, 287, 296: the satellite records one field value produces
NestedRecordsOf(value, pk_value) ==
    IF IsDict(value)
    THEN << DictMerge(<< <<K_parent_id, pk_value>> >>, value[2]) >>
    ELSE IF IsDict(value[2][1])
    THEN [i \in 1..Len(value[2]) |->
            DictMerge(<< <<K_parent_id, pk_value>>, <<K_idx, I(i - 1)>> >>,
                      IF IsDict(value[2][i]) THEN value[2][i][2] ELSE <<>>)]
    ELSE [i \in 1..Len(value[2]) |->
            << <<K_parent_id, pk_value>>, <<K_idx, I(i - 1)>>,
               <<K_value, value[2][i]>> >>]

\* lines 264-297 for one record: <<nested_name, records>> per nested field
NestedOfRecord(record, table_name, primary_key) ==
    LET pk_value == IF primary_key # None THEN DictGet(record, primary_key) ELSE Null
        fields   == SelectSeq(record, LAMBDA e : IsNestedValue(e[2]))
    IN  [i \in 1..Len(fields) |->
            << table_name \o Sep \o fields[i][1],
               NestedRecordsOf(fields[i][2], pk_value) >>]

\* nested_tables[nested_name].append(...) over all records, in order
RECURSIVE AppendAll(_, _)
AppendAll(acc, items) ==
    IF items = <<>> THEN acc
    ELSE LET name == items[1][1]
             old  == IF DictHas(acc, name) THEN DictGet(acc, name) ELSE <<>>
         IN  AppendAll(DictSet(acc, name, old \o items[1][2]), Tail(items))

RECURSIVE extract_nested(_, _, _, _)
RECURSIVE DeeperNested(_, _, _)

\* a slip: the nested tables are returned as collected, without the recursion
DeeperNested_NoRecursion(nested_tables, all_nested, depth) ==
    Returned(<<>>, nested_tables)

\* lines 307-313: recursion into every nested table
DeeperNested(nested_tables, all_nested, depth) ==
    IF nested_tables = <<>> THEN Returned(<<>>, all_nested)
    ELSE LET nested_name == nested_tables[1][1]
             r == extract_nested(nested_tables[1][2], nested_name, K_parent_id, depth + 1)
         IN  IF r.err # "none" THEN r
             ELSE DeeperNested(Tail(nested_tables),
                               DictMerge(DictSet(all_nested, nested_name, r.main), r.nested),
                               depth)

extract_nested(records, table_name, primary_key_arg, depth) ==
    IF records = <<>> THEN Returned(<<>>, <<>>)
    ELSE IF depth > RecursionLimit THEN Raised("RecursionError")
    ELSE LET primary_key ==
                 IF primary_key_arg = None
                 THEN detect_primary_key(records, table_name)
                 ELSE primary_key_arg
             main_records  == [i \in 1..Len(records) |-> MainOf(records[i])]
             nested_tables ==
                 AppendAll(<<>>, Concat([i \in 1..Len(records) |->
                               NestedOfRecord(records[i], table_name, primary_key)]))
             type_error ==
                 \E i \in 1..Len(records) : \E j \in 1..Len(records[i]) :
                     ItemTypeError(records[i][j][2])
         IN  IF type_error THEN Raised("TypeError")
             ELSE LET deep == DeeperNested(nested_tables, <<>>, depth)
                  IN  IF deep.err # "none" THEN deep
                      ELSE Returned(main_records, deep.nested)


-----------------------------------------------------------------------------
(* Fidoo7Driver, src/fidoo_driver/client.py                                *)

MAX_PAGE_SIZE          == 100
SAFE_DEFAULT_PAGE_SIZE == 50
\* __init__: max_retries: int = 3
DEFAULT_MAX_RETRIES    == 3

\* __init__, line 164: self.max_retries = max_retries or 3
InitMaxRetries(max_retries) == IF max_retries = 0 THEN 3 ELSE max_retries

\* a slip: not-found is retried like a server error
status_forcelist_WithNotFound == {404, 429, 500, 502, 503, 504}

\* _create_session, line 817
status_forcelist == {429, 500, 502, 503, 504}
\* urllib3 Retry: statuses whose Retry-After header is honoured
RETRY_AFTER_STATUS_CODES == {413, 429, 503}

K_root    == <<"r", "o", "o", "t">>
K_items   == <<"i", "t", "e", "m", "s">>
K_Items   == <<"I", "t", "e", "m", "s">>
K_data    == <<"d", "a", "t", "a">>
K_Data    == <<"D", "a", "t", "a">>
K_results == <<"r", "e", "s", "u", "l", "t", "s">>
K_Results == <<"R", "e", "s", "u", "l", "t", "s">>
K_Records == <<"R", "e", "c", "o", "r", "d", "s">>
K_records == <<"r", "e", "c", "o", "r", "d", "s">>
K_complete        == <<"c", "o", "m", "p", "l", "e", "t", "e">>
K_nextOffsetToken == <<"n", "e", "x", "t", "O", "f", "f", "s", "e", "t",
                       "T", "o", "k", "e", "n">>

\* Python truthiness of a JSON value
TruthyJson(v) ==
    CASE v[1] = "null" -> FALSE
      [] v[1] = "str"  -> v[2] # ""
      [] v[1] = "int"  -> v[2] # 0
      [] OTHER         -> v[2] # <<>>

\* an HTTP exchange as the session sees it: a status with a body, or a
\* transport failure ("timeout", "conn")
Http(status, retry_after, body) ==
    [fail |-> "none", status |-> status, retry_after |-> retry_after, body |-> body]
TransportFailure(kind) ==
    [fail |-> kind, status |-> 0, retry_after |-> FALSE, body |-> Null]

\* what a call returns or raises; mentions: what the error's message and
\* details name
Ok(batch)           == [kind |-> "ok", batch |-> batch, cls |-> "", mentions |-> {}]
Raise(cls, mentions) == [kind |-> "raise", batch |-> Null, cls |-> cls, mentions |-> mentions]
Pending             == [kind |-> "pending", batch |-> Null, cls |-> "", mentions |-> {}]

\* _parse_response, lines 826-884
FirstTruthy(data, keys) ==
    IF \E i \in 1..Len(keys) : TruthyJson(DictGet(data, keys[i]))
    THEN DictGet(data, keys[CHOOSE i \in 1..Len(keys) :
                     /\ TruthyJson(DictGet(data, keys[i]))
                     /\ \A j \in 1..(i - 1) : ~TruthyJson(DictGet(data, keys[j]))])
    ELSE A(<<>>)

_parse_response(data) ==
    IF IsList(data) THEN data
    ELSE IF IsDict(data)
    THEN LET records == FirstTruthy(data[2],
                 <<K_root, K_items, K_Items, K_data, K_Data,
                   K_results, K_Results, K_Records, K_records>>)
         IN  IF IsList(records) THEN records ELSE A(<<records>>)
    ELSE A(<<>>)

\* _handle_api_error, lines 886-968; the context names the endpoint
_handle_api_error(status) ==
    CASE status = 401 -> Raise("AuthenticationError", {"status_code", "endpoint"})
      [] status = 403 -> Raise("AuthenticationError", {"status_code", "endpoint"})
      [] status = 404 -> Raise("ObjectNotFoundError", {"status_code", "endpoint"})
      [] status = 429 -> Raise("RateLimitError",
                               {"status_code", "endpoint", "retry_after", "limit_per_day"})
      [] status >= 500 -> Raise("ConnectionError", {"status_code", "endpoint"})
      [] OTHER -> Raise("DriverError", {"status_code", "endpoint"})

\* _create_session, lines 812-822: the Retry strategy is mounted only when
\* self.max_retries > 0; a session without it retries nothing
\* Retry(backoff_factor=1), line 816
backoff_factor == 1

\* urllib3 Retry.get_backoff_time: no wait after the first failure in a row,
\* then backoff_factor * 2^(failures - 1)
get_backoff_time(consecutive_errors) ==
    IF consecutive_errors <= 1 THEN 0
    ELSE backoff_factor * 2 ^ (consecutive_errors - 1)

\* urllib3 Retry.sleep: the Retry-After header of the response when it has
\* one, else the backoff after that many failures in a row
SleepAfter(resp, consecutive_errors) ==
    IF resp.fail = "none" /\ resp.retry_after
    THEN [kind |-> "retry_after", seconds |-> 0]
    ELSE [kind |-> "backoff", seconds |-> get_backoff_time(consecutive_errors)]

RetryBudget(self_max_retries) == IF self_max_retries > 0 THEN self_max_retries ELSE 0

IsRetry(resp, self_max_retries) ==
    /\ self_max_retries > 0
    /\ \/ resp.fail # "none"
       \/ resp.status \in status_forcelist
       \/ resp.retry_after /\ resp.status \in RETRY_AFTER_STATUS_CODES

\* read, lines 416-437: how the post ends once no retry is left or wanted
ReadResult(resp, self_max_retries) ==
    IF resp.fail = "timeout"
    THEN Raise("TimeoutError", {"endpoint", "timeout"})
    ELSE IF resp.fail = "conn" \/ IsRetry(resp, self_max_retries)
    THEN Raise("ConnectionError", {"endpoint", "error"})
    ELSE IF resp.status >= 400
    THEN _handle_api_error(resp.status)
    ELSE Ok(_parse_response(resp.body))

\* a slip: the comparison is off by one
LimitRejected_OffByOne(limit) == limit > MAX_PAGE_SIZE + 1

\* read, lines 394-406: the page size check
LimitRejected(limit) == limit > MAX_PAGE_SIZE

\* read_batched, lines 466-481, after read returned batch: stop, or the
\* offset token of the next request.  [stop, yield, offset]
BatchedStep(batch) ==
    IF ~TruthyJson(batch)
    THEN [stop |-> TRUE, yield |-> FALSE, offset |-> Null]
    ELSE IF IsDict(batch) /\ TruthyJson(DictGet(batch[2], K_complete))
    THEN [stop |-> TRUE, yield |-> TRUE, offset |-> Null]
    ELSE IF IsDict(batch) /\ DictHas(batch[2], K_nextOffsetToken)
    THEN [stop |-> FALSE, yield |-> TRUE, offset |-> DictGet(batch[2], K_nextOffsetToken)]
    ELSE [stop |-> TRUE, yield |-> TRUE, offset |-> Null]

-----------------------------------------------------------------------------
(* main.py: the orchestrator and what it calls.                            *)

T_expense == <<"e", "x", "p", "e", "n", "s", "e">>
T_receipt == <<"r", "e", "c", "e", "i", "p", "t">>
K_source_ == <<"_", "s", "o", "u", "r", "c", "e", "_">>

\* PRIMARY_ENDPOINTS, lines 150-167: object type -> endpoint
PRIMARY_ENDPOINTS ==
    << <<<<"u", "s", "e", "r">>, "user/get-users">>,
       <<<<"c", "a", "r", "d">>, "card/get-cards">>,
       <<<<"t", "r", "a", "n", "s", "a", "c", "t", "i", "o", "n">>, "transaction/get-card-transactions">>,
       <<<<"c", "a", "s", "h", "_", "t", "r", "a", "n", "s", "a", "c", "t", "i", "o", "n">>, "cash-transactions/get-cash-transactions">>,
       <<<<"m", "v", "c", "_", "t", "r", "a", "n", "s", "a", "c", "t", "i", "o", "n">>, "mvc-transaction/get-transactions">>,
       <<<<"e", "x", "p", "e", "n", "s", "e">>, "expense/get-expenses">>,
       <<<<"t", "r", "a", "v", "e", "l", "_", "r", "e", "p", "o", "r", "t">>, "travel/get-travel-reports">>,
       <<<<"t", "r", "a", "v", "e", "l", "_", "r", "e", "q", "u", "e", "s", "t">>, "travel/get-travel-requests">>,
       <<<<"p", "e", "r", "s", "o", "n", "a", "l", "_", "b", "i", "l", "l", "i", "n", "g">>, "personal-billing/get-billings">>,
       <<<<"a", "c", "c", "o", "u", "n", "t">>, "accounts/get-accounts">>,
       <<<<"c", "o", "s", "t", "_", "c", "e", "n", "t", "e", "r">>, "settings/get-cost-centers">>,
       <<<<"p", "r", "o", "j", "e", "c", "t">>, "settings/get-projects">>,
       <<<<"a", "c", "c", "o", "u", "n", "t", "_", "a", "s", "s", "i", "g", "n", "m", "e", "n", "t">>, "settings/get-account-assignments">>,
       <<<<"a", "c", "c", "o", "u", "n", "t", "i", "n", "g", "_", "c", "a", "t", "e", "g", "o", "r", "y">>, "settings/get-accounting-categories">>,
       <<<<"v", "a", "t", "_", "b", "r", "e", "a", "k", "d", "o", "w", "n">>, "settings/get-vat-breakdowns">>,
       <<<<"v", "e", "h", "i", "c", "l", "e">>, "settings/get-vehicles">> >>

\* DEPENDENT_ENDPOINTS, lines 170-189
DEPENDENT_ENDPOINTS ==
    << <<<<"e", "x", "p", "e", "n", "s", "e", "_", "i", "t", "e", "m">>,
          [endpoint |-> "expense/get-expense-items",
           source_table |-> <<"e", "x", "p", "e", "n", "s", "e">>,
           source_id_field |-> <<"e", "x", "p", "e", "n", "s", "e", "I", "d">>,
           param_name |-> <<"e", "x", "p", "e", "n", "s", "e", "I", "d">>]>>,
       <<<<"t", "r", "a", "v", "e", "l", "_", "r", "e", "p", "o", "r", "t", "_", "d", "e", "t", "a", "i", "l">>,
          [endpoint |-> "travel/get-travel-report-detail",
           source_table |-> <<"t", "r", "a", "v", "e", "l", "_", "r", "e", "p", "o", "r", "t">>,
           source_id_field |-> <<"t", "r", "a", "v", "e", "l", "R", "e", "p", "o", "r", "t", "I", "d">>,
           param_name |-> <<"t", "r", "a", "v", "e", "l", "R", "e", "p", "o", "r", "t", "I", "d">>]>>,
       <<<<"t", "r", "a", "v", "e", "l", "_", "r", "e", "q", "u", "e", "s", "t", "_", "d", "e", "t", "a", "i", "l">>,
          [endpoint |-> "travel/get-travel-request-detail",
           source_table |-> <<"t", "r", "a", "v", "e", "l", "_", "r", "e", "q", "u", "e", "s", "t">>,
           source_id_field |-> <<"t", "r", "a", "v", "e", "l", "R", "e", "q", "u", "e", "s", "t", "I", "d">>,
           param_name |-> <<"t", "r", "a", "v", "e", "l", "R", "e", "q", "u", "e", "s", "t", "I", "d">>]>> >>

\* "__" in table_name
Contains(s, sub) ==
    \E i \in 1..(Len(s) - Len(sub) + 1) : SubSeq(s, i, i + Len(sub) - 1) = sub

\* table_name.replace("_", "")
RemoveUnderscores(s) == SelectSeq(s, LAMBDA c : c # "_")

\* the order in which SHOW TABLES lists names
Alphabet ==
    <<"A", "B", "C", "D", "E", "F", "G", "H", "I", "J", "K", "L", "M", "N", "O",
      "P", "Q", "R", "S", "T", "U", "V", "W", "X", "Y", "Z", "_",
      "a", "b", "c", "d", "e", "f", "g", "h", "i", "j", "k", "l", "m", "n", "o",
      "p", "q", "r", "s", "t", "u", "v", "w", "x", "y", "z">>
CharIndex(c) == CHOOSE i \in 1..Len(Alphabet) : Alphabet[i] = c

RECURSIVE NameLess(_, _)
NameLess(a, b) ==
    IF b = <<>> THEN FALSE
    ELSE IF a = <<>> THEN TRUE
    ELSE IF a[1] = b[1] THEN NameLess(Tail(a), Tail(b))
    ELSE CharIndex(a[1]) < CharIndex(b[1])

\* the staging store: a function from table names to their rows
EmptyStore == [t \in {} |-> <<>>]

\* the columns of a table made from records: their keys, first seen first
RECURSIVE ColumnsOf(_)
ColumnsOf(rows) ==
    IF rows = <<>> THEN <<>>
    ELSE LET before == ColumnsOf(SubSeq(rows, 1, Len(rows) - 1))
             last   == DictKeys(rows[Len(rows)])
         IN  before \o SelectSeq(last, LAMBDA k : \A i \in 1..Len(before) : before[i] # k)

\* insert_to_duckdb, lines 318-334
insert_to_duckdb(store, table_name, records) ==
    IF records = <<>> THEN store
    ELSE IF table_name \notin DOMAIN store
    THEN [t \in DOMAIN store \cup {table_name} |->
            IF t = table_name THEN records ELSE store[t]]
    ELSE [store EXCEPT ![table_name] = @ \o records]

\* a slip: the tables of an earlier export are left in place
DropTables_Skipped(store, names) == store

\* DROP TABLE IF EXISTS for the main table and every nested name,
\* lines 386-389 and 483-486
DropTables(store, names) == [t \in DOMAIN store \ names |-> store[t]]

\* lines 395-399 and 492-496
RECURSIVE InsertNested(_, _)
InsertNested(store, nested_tables) ==
    IF nested_tables = <<>> THEN store
    ELSE InsertNested(insert_to_duckdb(store, nested_tables[1][1], nested_tables[1][2]),
                      Tail(nested_tables))

\* what an export call hands back to main: the store as it left it, the
\* count it returned or the exception it raised, and what it had fetched
Exported(store, count, fetched, wrote) ==
    [store |-> store, count |-> count, raised |-> "", fetched |-> fetched, wrote |-> wrote]
ExportRaised(store, cls, fetched) ==
    [store |-> store, count |-> 0, raised |-> cls, fetched |-> fetched, wrote |-> {}]

\* where a statement on the staging connection may fail
FailPoints == {"none", "drop", "insert_main", "insert_nested"}

\* lines 381-401 and 478-498: normalize, drop, insert
NormalizeAndStage(store, object_type, all_records, fail_at) ==
    LET ex == extract_nested(all_records, object_type, None, 0)
        names    == {object_type} \cup {ex.nested[i][1] : i \in 1..Len(ex.nested)}
        dropped  == DropTables(store, names)
        withMain == insert_to_duckdb(dropped, object_type, ex.main)
        full     == InsertNested(withMain, ex.nested)
    IN  IF ex.err # "none" THEN ExportRaised(store, ex.err, all_records)
        ELSE IF fail_at = "drop" THEN ExportRaised(store, "duckdb.Error", all_records)
        ELSE IF fail_at = "insert_main" THEN ExportRaised(dropped, "duckdb.Error", all_records)
        ELSE IF fail_at = "insert_nested" /\ ex.nested # <<>>
        THEN ExportRaised(withMain, "duckdb.Error", all_records)
        ELSE Exported(full, Len(ex.main), all_records, names)

\* the server as a call sees it: its answers to the first, second, ...
\* request; the last answer repeats
ServerAt(script, i) == script[IF i <= Len(script) THEN i ELSE Len(script)]

\* read against a scripted server, from request i on
RECURSIVE ReadScript(_, _, _, _)
ReadScript(script, i, left, smr) ==
    LET resp == ServerAt(script, i)
    IN  IF IsRetry(resp, smr) /\ left > 0
        THEN ReadScript(script, i + 1, left - 1, smr)
        ELSE [r |-> ReadResult(resp, smr), next |-> i + 1]

\* a call read(query, limit=..., **kwargs): the signature is
\* read(self, query, limit=None, offset=None), client.py:360-365
ReadCall(kwargs, limit, script, smr) ==
    IF kwargs # {} THEN Raise("TypeError", {"keyword"})
    ELSE IF LimitRejected(limit) THEN Raise("ValidationError", {"limit"})
    ELSE ReadScript(script, 1, RetryBudget(smr), smr).r

\* read_batched against a scripted server: what it yields and how it ends
RECURSIVE ReadBatchedScript(_, _, _, _, _)
ReadBatchedScript(script, i, batch_size, yielded, smr) ==
    IF LimitRejected(batch_size) THEN [yielded |-> yielded, raised |-> "ValidationError"]
    ELSE LET rd == ReadScript(script, i, RetryBudget(smr), smr)
             g  == BatchedStep(rd.r.batch)
             ys == IF g.yield THEN Append(yielded, rd.r.batch) ELSE yielded
         IN  IF rd.r.kind = "raise" THEN [yielded |-> yielded, raised |-> rd.r.cls]
             ELSE IF g.stop THEN [yielded |-> ys, raised |-> ""]
             ELSE ReadBatchedScript(script, rd.next, batch_size, ys, smr)

\* the dicts of a batch (a JSON array of objects)
RecordsOf(batch) == [i \in 1..Len(batch[2]) |-> batch[2][i][2]]

\* main constructs the driver without max_retries, line 661
MainMaxRetries == InitMaxRetries(DEFAULT_MAX_RETRIES)

\* variant: a not-found failure of the fetch is raised like any other
export_primary_to_duckdb_NotFoundRaises(store, object_type, script, fail_at) ==
    LET it == ReadBatchedScript(script, 1, MAX_PAGE_SIZE, <<>>, MainMaxRetries)
        all_records == Concat([i \in 1..Len(it.yielded) |-> RecordsOf(it.yielded[i])])
    IN  IF it.raised # "" THEN ExportRaised(store, it.raised, all_records)
        ELSE IF all_records = <<>> THEN Exported(store, 0, all_records, {})
        ELSE NormalizeAndStage(store, object_type, all_records, fail_at)

\* export_primary_to_duckdb, lines 337-401
export_primary_to_duckdb(store, object_type, script, fail_at) ==
    LET it == ReadBatchedScript(script, 1, MAX_PAGE_SIZE, <<>>, MainMaxRetries)
        all_records == Concat([i \in 1..Len(it.yielded) |-> RecordsOf(it.yielded[i])])
    IN  IF it.raised = "ObjectNotFoundError" THEN Exported(store, 0, all_records, {})
        ELSE IF it.raised # "" THEN ExportRaised(store, it.raised, all_records)
        ELSE IF all_records = <<>> THEN Exported(store, 0, all_records, {})
        ELSE NormalizeAndStage(store, object_type, all_records, fail_at)

\* SELECT DISTINCT field FROM table WHERE field IS NOT NULL, line 432
RECURSIVE DistinctNonNull(_, _)
DistinctNonNull(rows, field) ==
    IF rows = <<>> THEN <<>>
    ELSE LET before == DistinctNonNull(SubSeq(rows, 1, Len(rows) - 1), field)
             v      == DictGet(rows[Len(rows)], field)
         IN  IF v = Null \/ \E i \in 1..Len(before) : before[i] = v
             THEN before ELSE Append(before, v)

\* lines 449-469 for one id: the records it adds to all_records
RecordsForId(config, id_value, script) ==
    LET rd == ReadCall({config.param_name}, MAX_PAGE_SIZE, script, MainMaxRetries)
    IN  IF rd.kind = "raise" THEN <<>>
        ELSE LET records == RecordsOf(rd.batch)
             IN  [i \in 1..Len(records) |->
                     DictSet(records[i], K_source_ \o config.source_id_field, id_value)]

\* the ids export_dependent_to_duckdb iterates over, lines 422-440
SourceIds(store, config) ==
    IF config.source_table \notin DOMAIN store THEN <<>>
    ELSE IF \A i \in 1..Len(ColumnsOf(store[config.source_table])) :
                ColumnsOf(store[config.source_table])[i] # config.source_id_field
    THEN <<>>
    ELSE DistinctNonNull(store[config.source_table], config.source_id_field)

\* a slip: a source table that is not staged is an error
export_dependent_to_duckdb_SourceRequired(store, object_type, config, answers, fail_at) ==
    ExportRaised(store, "CatalogException", <<>>)

\* export_dependent_to_duckdb, lines 404-498; answers: the server's script
\* for each id
export_dependent_to_duckdb(store, object_type, config, answers, fail_at) ==
    LET ids == SourceIds(store, config)
        all_records == Concat([i \in 1..Len(ids) |->
                           RecordsForId(config, ids[i], answers[ids[i]])])
    IN  IF ids = <<>> THEN Exported(store, 0, <<>>, {})
        ELSE IF all_records = <<>> THEN Exported(store, 0, all_records, {})
        ELSE NormalizeAndStage(store, object_type, all_records, fail_at)

\* get_primary_key_for_table, lines 501-540
get_primary_key_for_table(column_names, table_name) ==
    LET has(c) == \E i \in 1..Len(column_names) : column_names[i] = c
        candidates == << table_name \o K_Id,
                         RemoveUnderscores(table_name) \o K_Id,
                         RStripS(table_name) \o K_Id,
                         K_id,
                         K_Id >>
        fallback(c) == EndsWith(c, K_Id) /\ ~StartsWith(c, <<"_">>)
    IN  IF Contains(table_name, Sep)
        THEN (IF has(K_parent_id) THEN <<K_parent_id>> ELSE <<>>)
             \o (IF has(K_idx) THEN <<K_idx>> ELSE <<>>)
        ELSE IF \E i \in 1..Len(candidates) : has(candidates[i])
        THEN << candidates[CHOOSE i \in 1..Len(candidates) :
                    /\ has(candidates[i])
                    /\ \A j \in 1..(i - 1) : ~has(candidates[j])] >>
        ELSE IF \E i \in 1..Len(column_names) : fallback(column_names[i])
        THEN << column_names[CHOOSE i \in 1..Len(column_names) :
                    /\ fallback(column_names[i])
                    /\ \A j \in 1..(i - 1) : ~fallback(column_names[j])] >>
        ELSE <<>>

\* export_duckdb_to_csv, lines 561-596, for one table: what reaches the sink
SinkEntry(store, table_name, set_primary_keys) ==
    [table |-> table_name,
     primary_key |-> IF set_primary_keys
                     THEN get_primary_key_for_table(ColumnsOf(store[table_name]), table_name)
                     ELSE <<>>,
     rows |-> Len(store[table_name])]

\* a slip: tables without rows are exported like the others
export_duckdb_to_csv_NoSkip(store, set_primary_keys, failing) ==
    {SinkEntry(store, t, set_primary_keys) :
        t \in {u \in DOMAIN store : failing # None => NameLess(u, failing)}}

\* export_duckdb_to_csv, lines 543-598; failing: the table at which the sink
\* or the COPY raises (None: none does)
export_duckdb_to_csv(store, set_primary_keys, failing) ==
    {SinkEntry(store, t, set_primary_keys) :
        t \in {u \in DOMAIN store :
                 /\ Len(store[u]) # 0
                 /\ failing # None => NameLess(u, failing)}}

\* a handler that names the driver's errors only
CaughtByMain_DriverErrorsOnly(cls) ==
    cls \in {"ObjectNotFoundError", "RateLimitError", "TimeoutError", "ConnectionError"}

\* except Exception, lines 699 and 722
CaughtByMain(cls) == cls \notin {"KeyboardInterrupt", "SystemExit"}

\* object_counts[object_type] = count
Put(counts, k, v) == [t \in DOMAIN counts \cup {k} |-> IF t = k THEN v ELSE counts[t]]

\* object_type in PRIMARY_ENDPOINTS, PRIMARY_ENDPOINTS[object_type]
IsPrimary(object_type) ==
    \E i \in 1..Len(PRIMARY_ENDPOINTS) : PRIMARY_ENDPOINTS[i][1] = object_type

\* main() before it starts, and while the other specifications run
IdleMainVars ==
    /\ m_pc = "start"
    /\ m_objects = <<>>
    /\ m_include_dependent = TRUE
    /\ m_i = 1
    /\ m_opened = FALSE
    /\ m_closed = FALSE
    /\ m_object_counts = EmptyStore
    /\ m_total_records = 0
    /\ m_store = EmptyStore
    /\ m_pending = ""
    /\ m_state = <<>>
    /\ m_sink = {}
    /\ m_hist = <<>>

-----------------------------------------------------------------------------
(* SpecFetch: one read or one read_batched against a server that answers   *)
(* every request as it likes.                                              *)

K_expenseId == <<"e", "x", "p", "e", "n", "s", "e", "I", "d">>
Rec(id) == << <<K_expenseId, S(id)>> >>

PageTok   == Http(200, FALSE, O(<< <<K_root, A(<<O(Rec("e1"))>>)>>,
                                   <<K_nextOffsetToken, S("t1")>> >>))
PageLast  == Http(200, FALSE, O(<< <<K_root, A(<<O(Rec("e2"))>>)>> >>))
EmptyTok  == Http(200, FALSE, O(<< <<K_root, A(<<>>)>>,
                                   <<K_nextOffsetToken, S("t1")>> >>))
EmptyLast == Http(200, FALSE, O(<<>>))
PageArray == Http(200, FALSE, A(<<O(Rec("e3"))>>))
PageOne   == Http(200, FALSE, O(<< <<K_data, O(Rec("e4"))>> >>))

TokenPages == {PageTok, EmptyTok}
FinalPages == {PageLast, EmptyLast, PageArray, PageOne}

TransientFailures ==
    {Http(429, FALSE, Null), Http(429, TRUE, Null), Http(500, FALSE, Null),
     Http(503, FALSE, Null), TransportFailure("timeout"), TransportFailure("conn")}

PermanentFailures ==
    {Http(400, FALSE, Null), Http(401, FALSE, Null), Http(403, FALSE, Null),
     Http(404, FALSE, Null), Http(501, FALSE, Null)}

\* the dataset is finite: after MaxTokenPages tokened pages comes a last one
Answers(log) ==
    LET tokened == Cardinality({i \in 1..Len(log) : log[i].resp \in TokenPages})
    IN  FinalPages \cup TransientFailures \cup PermanentFailures
        \cup (IF tokened < MaxTokenPages THEN TokenPages ELSE {})

InitFetchVars ==
    /\ f_mode \in {"read", "batched"}
    /\ f_arg \in (-1)..MaxRetriesArg
    /\ f_limit \in {SAFE_DEFAULT_PAGE_SIZE, MAX_PAGE_SIZE, MAX_PAGE_SIZE + 1}
    /\ f_pc = "start"
    /\ f_left = 0
    /\ f_offset = Null
    /\ f_log = <<>>
    /\ f_yielded = <<>>
    /\ f_result = Pending

IdleFetchVars ==
    /\ f_mode = "read"
    /\ f_arg = DEFAULT_MAX_RETRIES
    /\ f_limit = MAX_PAGE_SIZE
    /\ f_pc = "done"
    /\ f_left = 0
    /\ f_offset = Null
    /\ f_log = <<>>
    /\ f_yielded = <<>>
    /\ f_result = Pending

self_max_retries == InitMaxRetries(f_arg)

\* read, lines 394-406: a limit over the maximum raises before any request
ReadRejected ==
    /\ f_pc = "start"
    /\ LimitRejected(f_limit)
    /\ f_pc' = "done"
    /\ f_result' = Raise("ValidationError", {"limit"})
    /\ UNCHANGED <<f_mode, f_arg, f_limit, f_left, f_offset, f_log, f_yielded>>
    /\ UNCHANGED notFetch

\* read, lines 408-421: session.post starts with a fresh retry budget
ReadPost ==
    /\ f_pc = "start"
    /\ ~LimitRejected(f_limit)
    /\ f_pc' = "sending"
    /\ f_left' = RetryBudget(self_max_retries)
    /\ UNCHANGED <<f_mode, f_arg, f_limit, f_offset, f_log, f_yielded, f_result>>
    /\ UNCHANGED notFetch

\* one request goes out and is answered with a failure the Retry strategy
\* retries
AttemptRetried ==
    /\ f_pc = "sending"
    /\ \E resp \in Answers(f_log) :
        /\ IsRetry(resp, self_max_retries)
        /\ f_left > 0
        /\ f_log' = Append(f_log, [offset |-> f_offset, resp |-> resp])
        /\ f_left' = f_left - 1
    /\ UNCHANGED <<f_mode, f_arg, f_limit, f_pc, f_offset, f_yielded, f_result>>
    /\ UNCHANGED notFetch

\* one request goes out and read ends: raises, or returns the parsed batch
\* to its caller
AttemptEndsRead ==
    /\ f_pc = "sending"
    /\ f_mode = "read"
    /\ \E resp \in Answers(f_log) :
        /\ ~(IsRetry(resp, self_max_retries) /\ f_left > 0)
        /\ f_log' = Append(f_log, [offset |-> f_offset, resp |-> resp])
        /\ f_result' = ReadResult(resp, self_max_retries)
    /\ f_pc' = "done"
    /\ UNCHANGED <<f_mode, f_arg, f_limit, f_left, f_offset, f_yielded>>
    /\ UNCHANGED notFetch

\* read_batched, lines 460-481: the read it called ends; the generator
\* raises, stops, or yields and asks for the next page
AttemptEndsBatch ==
    /\ f_pc = "sending"
    /\ f_mode = "batched"
    /\ \E resp \in Answers(f_log) :
        /\ ~(IsRetry(resp, self_max_retries) /\ f_left > 0)
        /\ f_log' = Append(f_log, [offset |-> f_offset, resp |-> resp])
        /\ LET r == ReadResult(resp, self_max_retries)
               g == BatchedStep(r.batch)
           IN  IF r.kind = "raise"
               THEN /\ f_result' = r
                    /\ f_pc' = "done"
                    /\ UNCHANGED <<f_yielded, f_offset, f_left>>
               ELSE /\ f_yielded' = IF g.yield THEN Append(f_yielded, r.batch) ELSE f_yielded
                    /\ f_offset' = g.offset
                    /\ f_pc' = IF g.stop THEN "done" ELSE "sending"
                    /\ f_left' = RetryBudget(self_max_retries)
                    /\ f_result' = IF g.stop THEN Ok(Null) ELSE f_result
    /\ UNCHANGED <<f_mode, f_arg, f_limit>>
    /\ UNCHANGED notFetch

NextFetch ==
    \/ ReadRejected
    \/ ReadPost
    \/ AttemptRetried
    \/ AttemptEndsRead
    \/ AttemptEndsBatch

InitFetch ==
    /\ InitFetchVars
    /\ IdleMainVars
    /\ n_pc = "done" /\ n_records = <<>> /\ n_table = T_user
    /\ n_result = Raised("pending")

SpecFetch == InitFetch /\ [][NextFetch]_vars

-----------------------------------------------------------------------------
(* SpecNorm: extract_nested applied to every batch of the bounded domain.  *)

SeqsUpTo(set, n) == UNION {[1..k -> set] : k \in 0..n}

Leaf == {S("x"), Null, O(<<>>), A(<<>>)}

InnerKeys == {K_g, K_parent_id, K_idx}

\* what an array may hold: scalars, objects (also with a nested field), arrays
Elems ==
    {S("x"), Null, O(<<>>), A(<<S("x")>>)}
    \cup {O(<< <<k, S("y")>> >>) : k \in InnerKeys}
    \cup {O(<< <<K_g, A(<<S("x")>>)>> >>), O(<< <<K_g, O(<< <<K_g, S("x")>> >>)>> >>)}

Arrays == {A(l) : l \in SeqsUpTo(Elems, MaxArr) \ {<<>>}}

Objects ==
    {O(<< <<k, v>> >>) : k \in InnerKeys,
        v \in Leaf \cup {O(<< <<K_g, S("x")>> >>), A(<<S("x")>>),
                         A(<<O(<< <<K_g, S("x")>> >>)>>),
                         A(<<O(<< <<K_g, S("x")>> >>), O(<< <<K_g, S("y")>> >>)>>)}}

FieldValues == Leaf \cup Arrays \cup Objects

\* the key field: absent, a scalar, null, or (malformed upstream data) an object
KeyValues == {S("u1"), S("u2"), Null, O(<< <<K_a, S("x")>> >>)}

WithKey(fields) == {fields} \cup {<< <<K_id, k>> >> \o fields : k \in KeyValues}

RichRecords == UNION {WithKey(<< <<K_f, v>> >>) : v \in FieldValues}

SmallValues ==
    {S("x"), O(<< <<K_g, S("x")>> >>), O(<< <<K_parent_id, S("y")>> >>),
     A(<<S("x")>>), A(<<O(<< <<K_g, A(<<S("x")>>)>> >>)>>),
     A(<<O(<< <<K_idx, S("y")>> >>)>>)}

SmallRecords ==
    UNION {{<< <<K_f, v>> >>} \cup {<< <<K_id, k>>, <<K_f, v>> >> : k \in {S("u1"), S("u2"), Null}}
           : v \in SmallValues}

NormBatches == {<<r>> : r \in RichRecords} \cup SeqsUpTo(SmallRecords, MaxBatch)

\* the record of the worked example
ExampleRecord ==
    << <<K_id, S("u1")>>,
       <<K_tags, A(<<S("a"), S("b")>>)>>,
       <<K_address, O(<< <<K_city, S("Prague")>> >>)>> >>

\* most key-like fields of a record of a key batch
MaxKeyFields == 2

\* field names a key may be detected from, for the tables user and users
KeyFieldNames ==
    << T_users \o K_Id, T_user \o K_Id, K_id, K_Id, K_f \o K_Id, K_g \o K_Id, K_a >>

\* a record with the fields picked, in that order, each with a value of its
\* own, and one nested field
KeyRecord(r, picks) ==
    [i \in 1..Len(picks) |-> <<KeyFieldNames[picks[i]], I(10 * r + picks[i])>>]
        \o << <<K_f, A(<<S("x")>>)>> >>

KeyPicks ==
    {p \in SeqsUpTo(1..Len(KeyFieldNames), MaxKeyFields) :
        \A i \in 1..Len(p), j \in 1..Len(p) : i # j => p[i] # p[j]}

\* batches of one record, and of two records with the same fields
KeyBatches ==
    {<<KeyRecord(1, p)>> : p \in KeyPicks}
        \cup {<<KeyRecord(1, p), KeyRecord(2, p)>> : p \in KeyPicks}

\* a primary table with an underscore in its name, and the field names the
\* two key detections rank differently
T_cost_center == <<"c", "o", "s", "t", "_", "c", "e", "n", "t", "e", "r">>
K_costcenterId == <<"c", "o", "s", "t", "c", "e", "n", "t", "e", "r">> \o K_Id
K__fId == <<"_">> \o K_f \o K_Id
DeclaredKeyInputs ==
    { << << << <<K_id, I(1)>>, <<K_costcenterId, I(2)>>, <<K_f, A(<<S("x")>>)>> >> >>,
         T_cost_center >>,
      << << << <<T_cost_center \o K_Id, I(1)>>, <<K_id, I(2)>>, <<K_f, A(<<S("x")>>)>> >> >>,
         T_cost_center >>,
      << << << <<K__fId, I(1)>>, <<K_g \o K_Id, I(2)>>, <<K_f, A(<<S("x")>>)>> >> >>,
         T_user >> }

\* records with a field whose name holds the separator: a__g next to a.g
K_a__g == K_a \o Sep \o K_g
CollisionBatches ==
    { << << <<K_id, S("u1")>>,
            <<K_a, O(<< <<K_g, A(<<S("x")>>)>> >>)>>,
            <<K_a__g, A(<<S("y"), S("z")>>)>> >> >>,
      << << <<K_id, S("u1")>>,
            <<K_a__g, A(<<S("y"), S("z")>>)>>,
            <<K_a, O(<< <<K_g, A(<<S("x")>>)>> >>)>> >> >>,
      << << <<K_id, S("u1")>>,
            <<K_a, O(<< <<K_g, A(<<S("x")>>)>> >>)>> >> >>,
      << << <<K_id, S("u1")>>,
            <<K_a__g, A(<<S("y"), S("z")>>)>> >> >> }

\* records with empty objects and arrays next to scalars, and batches in which
\* a field is empty in one record and filled in the other
EmptyFieldBatches ==
    { << << <<K_id, S("u1")>>, <<K_f, O(<<>>)>>, <<K_g, A(<<>>)>>,
            <<K_a, S("x")>>, <<K_value, Null>>, <<K_idx, I(0)>> >> >>,
      << << <<K_id, S("u1")>>, <<K_f, A(<<>>)>> >>,
         << <<K_id, S("u2")>>, <<K_f, A(<<S("x")>>)>> >> >>,
      << << <<K_id, S("u1")>>, <<K_f, O(<< <<K_g, S("x")>> >>)>> >>,
         << <<K_id, S("u2")>>, <<K_f, O(<<>>)>> >> >> }

\* <<records, table_name>> of a call
NormInputs ==
    {<<b, T_user>> : b \in NormBatches}
        \cup {<< <<ExampleRecord>>, T_user >>}
        \cup {<<b, T_user>> : b \in CollisionBatches}
        \cup {<<b, T_user>> : b \in EmptyFieldBatches}
        \cup DeclaredKeyInputs
        \cup (KeyBatches \X {T_user, T_users})

InitNorm ==
    /\ IdleFetchVars
    /\ IdleMainVars
    /\ n_pc = "call"
    /\ \E in \in NormInputs : n_records = in[1] /\ n_table = in[2]
    /\ n_result = Raised("pending")

\* main_records, nested_tables = extract_nested(all_records, object_type)
NormCall ==
    /\ n_pc = "call"
    /\ n_result' = extract_nested(n_records, n_table, None, 0)
    /\ n_pc' = "done"
    /\ UNCHANGED <<n_records, n_table>>
    /\ UNCHANGED notNorm

NextNorm == NormCall

SpecNorm == InitNorm /\ [][NextNorm]_vars

-----------------------------------------------------------------------------
(* Spec: a run of main() against a server and a staging store that may     *)
(* fail wherever the code talks to them.                                   *)

\* longest request (parameters['objects']) of the model
MaxObjects == 2

\* upstream datasets, as the server's answers to successive requests
DataFull  == Http(200, FALSE, O(<< <<K_root,
                 A(<<O(Rec("e1") \o << <<K_tags, A(<<S("a"), S("b")>>)>> >>),
                     O(Rec("e2"))>>)>> >>))
DataPlain == Http(200, FALSE, O(<< <<K_root, A(<<O(Rec("e3"))>>)>> >>))
DataBadKey == Http(200, FALSE, O(<< <<K_root,
                 A(<<O(<< <<K_id, O(<< <<K_a, S("x")>> >>)>> >>)>>)>> >>))

MainScripts ==
    { <<DataFull>>, <<DataPlain>>, <<PageTok, PageLast>>, <<EmptyLast>>,
      <<DataBadKey>>,
      <<Http(404, FALSE, Null)>>, <<Http(429, FALSE, Null)>>,
      <<TransportFailure("timeout")>>,
      <<Http(503, FALSE, Null), DataPlain>> }

\* the server's answers for one id of a dependent endpoint
DepScripts == { <<PageArray>>, <<PageTok, PageLast>>, <<TransportFailure("timeout")>> }

RequestNames == {T_expense, T_user, T_receipt}
RequestLists == UNION {[1..k -> RequestNames] : k \in 1..MaxObjects}

\* lines 616-678
StartOutcomes == {"ok", "ValueError", "AuthenticationError", "duckdb.Error"}

IdleNormVars ==
    /\ n_pc = "done" /\ n_records = <<>> /\ n_table = T_user
    /\ n_result = Raised("pending")

Init ==
    /\ IdleNormVars
    /\ IdleFetchVars
    /\ m_pc = "start"
    /\ m_objects \in RequestLists
    /\ m_include_dependent \in BOOLEAN
    /\ m_i = 1
    /\ m_opened = FALSE
    /\ m_closed = FALSE
    /\ m_object_counts = EmptyStore
    /\ m_total_records = 0
    /\ m_store = EmptyStore
    /\ m_pending = ""
    /\ m_state = <<>>
    /\ m_sink = {}
    /\ m_hist = <<>>

\* one export call as the history keeps it; answers: the server's answers to
\* the requests of a primary call, or to the requests for each id of a
\* dependent call
Call(phase, idx, object_type, r, ids, answers) ==
    [phase |-> phase, idx |-> idx, obj |-> object_type, tables |-> DOMAIN m_store,
     raised |-> r.raised, count |-> r.count,
     fetched |-> r.fetched, wrote |-> r.wrote,
     written |-> [t \in r.wrote \cap DOMAIN r.store |-> r.store[t]],
     ids |-> ids, answers |-> answers]

\* lines 616-678: configuration, driver, staging store
MainStart ==
    /\ m_pc = "start"
    /\ \E outcome \in StartOutcomes :
          IF outcome = "ok"
          THEN /\ m_opened' = TRUE
               /\ m_pc' = "primary"
               /\ UNCHANGED m_pending
          ELSE /\ m_pending' = outcome
               /\ m_pc' = "exit1"
               /\ UNCHANGED m_opened
    /\ UNCHANGED <<m_objects, m_include_dependent, m_i, m_closed, m_object_counts,
                   m_total_records, m_store, m_state, m_sink, m_hist>>
    /\ UNCHANGED notMain

\* what a try/except around an export call leaves behind, lines 694-701 and
\* 717-724
AfterExportCall(r, object_type, entry) ==
    /\ m_store' = r.store
    /\ m_hist' = Append(m_hist, entry)
    /\ IF r.raised = ""
       THEN /\ m_object_counts' = Put(m_object_counts, object_type, r.count)
            /\ m_total_records' = m_total_records + r.count
            /\ m_i' = m_i + 1
            /\ UNCHANGED <<m_pc, m_pending>>
       ELSE IF CaughtByMain(r.raised)
       THEN /\ m_object_counts' = Put(m_object_counts, object_type, 0)
            /\ m_i' = m_i + 1
            /\ UNCHANGED <<m_pc, m_pending, m_total_records>>
       ELSE /\ m_pending' = r.raised
            /\ m_pc' = "finally"
            /\ UNCHANGED <<m_object_counts, m_total_records, m_i>>
    /\ UNCHANGED <<m_objects, m_include_dependent, m_opened, m_closed, m_state, m_sink>>
    /\ UNCHANGED notMain

\* lines 686-689
PrimarySkip ==
    /\ m_pc = "primary"
    /\ m_i <= Len(m_objects)
    /\ ~IsPrimary(m_objects[m_i])
    /\ m_i' = m_i + 1
    /\ UNCHANGED <<m_pc, m_objects, m_include_dependent, m_opened, m_closed,
                   m_object_counts, m_total_records, m_store, m_pending, m_state,
                   m_sink, m_hist>>
    /\ UNCHANGED notMain

\* lines 686-701
PrimaryExport ==
    /\ m_pc = "primary"
    /\ m_i <= Len(m_objects)
    /\ IsPrimary(m_objects[m_i])
    /\ \E script \in MainScripts, fail_at \in FailPoints :
          LET object_type == m_objects[m_i]
              r == export_primary_to_duckdb(m_store, object_type, script, fail_at)
          IN  AfterExportCall(r, object_type,
                  Call("primary", m_i, object_type, r, <<>>, script))

\* a slip: the loop is left one object type early
PrimaryDone_BeforeLast ==
    /\ m_pc = "primary"
    /\ m_i >= Len(m_objects)
    /\ m_pc' = IF m_include_dependent THEN "dependent" ELSE "export"
    /\ m_i' = 1
    /\ UNCHANGED <<m_objects, m_include_dependent, m_opened, m_closed,
                   m_object_counts, m_total_records, m_store, m_pending, m_state,
                   m_sink, m_hist>>
    /\ UNCHANGED notMain

\* line 704
PrimaryDone ==
    /\ m_pc = "primary"
    /\ m_i > Len(m_objects)
    /\ m_pc' = IF m_include_dependent THEN "dependent" ELSE "export"
    /\ m_i' = 1
    /\ UNCHANGED <<m_objects, m_include_dependent, m_opened, m_closed,
                   m_object_counts, m_total_records, m_store, m_pending, m_state,
                   m_sink, m_hist>>
    /\ UNCHANGED notMain

\* config["source_table"] not in objects
SourceRequested(config) == \E i \in 1..Len(m_objects) : m_objects[i] = config.source_table

\* lines 709-713
DependentSkip ==
    /\ m_pc = "dependent"
    /\ m_i <= Len(DEPENDENT_ENDPOINTS)
    /\ ~SourceRequested(DEPENDENT_ENDPOINTS[m_i][2])
    /\ m_i' = m_i + 1
    /\ UNCHANGED <<m_pc, m_objects, m_include_dependent, m_opened, m_closed,
                   m_object_counts, m_total_records, m_store, m_pending, m_state,
                   m_sink, m_hist>>
    /\ UNCHANGED notMain

\* lines 709-724
DependentExport ==
    /\ m_pc = "dependent"
    /\ m_i <= Len(DEPENDENT_ENDPOINTS)
    /\ SourceRequested(DEPENDENT_ENDPOINTS[m_i][2])
    /\ LET object_type == DEPENDENT_ENDPOINTS[m_i][1]
           config == DEPENDENT_ENDPOINTS[m_i][2]
           ids == SourceIds(m_store, config)
       IN  \E answers \in [{ids[k] : k \in 1..Len(ids)} -> DepScripts],
              fail_at \in FailPoints :
              LET r == export_dependent_to_duckdb(m_store, object_type, config,
                                                  answers, fail_at)
              IN  AfterExportCall(r, object_type,
                      Call("dependent", m_i, object_type, r, ids, answers))

\* the dependent loop is over
DependentDone ==
    /\ m_pc = "dependent"
    /\ m_i > Len(DEPENDENT_ENDPOINTS)
    /\ m_pc' = "export"
    /\ m_i' = 1
    /\ UNCHANGED <<m_objects, m_include_dependent, m_opened, m_closed,
                   m_object_counts, m_total_records, m_store, m_pending, m_state,
                   m_sink, m_hist>>
    /\ UNCHANGED notMain

\* line 731: export_duckdb_to_csv, which handles no exception
ExportToCsv ==
    /\ m_pc = "export"
    /\ \E failing \in {None} \cup DOMAIN m_store :
          /\ m_sink' = export_duckdb_to_csv(m_store, TRUE, failing)
          /\ m_pending' = IF failing = None THEN "" ELSE "Exception"
    /\ m_pc' = "finally"
    /\ UNCHANGED <<m_objects, m_include_dependent, m_i, m_opened, m_closed,
                   m_object_counts, m_total_records, m_store, m_state, m_hist>>
    /\ UNCHANGED notMain

\* a slip: the cleanup is an except-less tail of the try block, so a pending
\* exception passes it by
Finally_NotOnFailure ==
    /\ m_pc = "finally"
    /\ m_closed' = (m_pending = "")
    /\ m_store' = IF m_pending = "" THEN EmptyStore ELSE m_store
    /\ m_pc' = IF m_pending # "" THEN "exit1" ELSE "state"
    /\ UNCHANGED <<m_objects, m_include_dependent, m_i, m_opened,
                   m_object_counts, m_total_records, m_pending, m_state, m_sink,
                   m_hist>>
    /\ UNCHANGED notMain

\* lines 733-741, then the exception, if one is pending, reaches line 761
Finally ==
    /\ m_pc = "finally"
    /\ m_closed' = TRUE
    /\ m_store' = EmptyStore
    /\ m_pc' = IF m_pending # "" THEN "exit1" ELSE "state"
    /\ UNCHANGED <<m_objects, m_include_dependent, m_i, m_opened,
                   m_object_counts, m_total_records, m_pending, m_state, m_sink,
                   m_hist>>
    /\ UNCHANGED notMain

\* line 744 and update_state, lines 601-608
UpdateState ==
    /\ m_pc = "state"
    /\ \E written \in BOOLEAN :
          IF written
          THEN /\ m_state' = Append(m_state, m_object_counts)
               /\ m_pc' = "summary"
               /\ UNCHANGED m_pending
          ELSE /\ m_pending' = "OSError"
               /\ m_pc' = "exit1"
               /\ UNCHANGED m_state
    /\ UNCHANGED <<m_objects, m_include_dependent, m_i, m_opened, m_closed,
                   m_object_counts, m_total_records, m_store, m_sink, m_hist>>
    /\ UNCHANGED notMain

\* lines 746-759: the summary lists object_counts and total_records
Summary ==
    /\ m_pc = "summary"
    /\ m_pc' = "exit0"
    /\ UNCHANGED <<m_objects, m_include_dependent, m_i, m_opened, m_closed,
                   m_object_counts, m_total_records, m_store, m_pending, m_state,
                   m_sink, m_hist>>
    /\ UNCHANGED notMain

Next ==
    \/ MainStart
    \/ PrimarySkip
    \/ PrimaryExport
    \/ PrimaryDone
    \/ DependentSkip
    \/ DependentExport
    \/ DependentDone
    \/ ExportToCsv
    \/ Finally
    \/ UpdateState
    \/ Summary

Spec == Init /\ [][Next]_vars

\* longest request of the runs whose whole behaviours are checked
MaxLiveObjects == 1

InitLive == Init /\ Len(m_objects) <= MaxLiveObjects

\* main() is one sequential program: a step that can be taken is taken
SpecLive == InitLive /\ [][Next]_vars /\ WF_vars(Next)

-----------------------------------------------------------------------------
(* SpecSink: export_duckdb_to_csv and what follows it in main(), on a      *)
(* staging store with any tables in it, also tables without rows.          *)

\* most rows of a table in such a store
MaxRows == 2

SinkTableNames == {T_expense, T_user, T_expense \o Sep \o K_tags}
SinkRows == UNION {[1..k -> {Rec("e1"), << <<K_parent_id, S("e1")>>, <<K_idx, I(0)>> >>}] :
                     k \in 0..MaxRows}
SinkStores == UNION {[names -> SinkRows] : names \in SUBSET SinkTableNames}

InitSink ==
    /\ IdleNormVars
    /\ IdleFetchVars
    /\ m_pc = "export"
    /\ m_objects = <<T_expense, T_user>>
    /\ m_include_dependent = FALSE
    /\ m_i = 1
    /\ m_opened = TRUE
    /\ m_closed = FALSE
    /\ m_object_counts = EmptyStore
    /\ m_total_records = 0
    /\ m_store \in SinkStores
    /\ m_pending = ""
    /\ m_state = <<>>
    /\ m_sink = {}
    /\ m_hist = <<>>

NextSink ==
    \/ ExportToCsv
    \/ Finally
    \/ UpdateState
    \/ Summary

SpecSink == InitSink /\ [][NextSink]_vars

-----------------------------------------------------------------------------
(* Claims about extract_nested, checked under SpecNorm.                    *)

NormReturned == n_pc = "done" /\ n_result.err = "none"

RowFlat(row) == \A i \in 1..Len(row) : IsScalarOrNull(row[i][2])

TablesOf(result) == {result.nested[t] : t \in 1..Len(result.nested)}

\* the satellite tables below the first level: table__f__<field>
IsDeepName(name) == Len(name) > Len(n_table \o Sep \o K_f)

ParentKeys ==
    LET pk == detect_primary_key(n_records, n_table)
    IN  {IF pk # None THEN DictGet(n_records[i], pk) ELSE Null :
            i \in 1..Len(n_records)}

\* C5: every record of every satellite table carries in parent_id the key
\* value of a record of the batch (null when no key is inferred), whatever
\* fields the nested object itself has.
C5_ParentIdIsParentKey ==
    NormReturned =>
        \A t \in TablesOf(n_result) : \A i \in 1..Len(t[2]) :
            /\ DictHas(t[2][i], K_parent_id)
            /\ DictGet(t[2][i], K_parent_id) \in ParentKeys

\* a nested object or array element that itself has a field parent_id or idx
RECURSIVE HasLinkField(_)
HasLinkField(v) ==
    IF IsDict(v)
    THEN \E i \in 1..Len(v[2]) :
            v[2][i][1] \in {K_parent_id, K_idx} \/ HasLinkField(v[2][i][2])
    ELSE IF IsList(v)
    THEN \E i \in 1..Len(v[2]) : HasLinkField(v[2][i])
    ELSE FALSE

\* the batch's records have pairwise distinct, non-null keys and no nested
\* value brings its own parent_id or idx
DistinctParents ==
    LET pk == detect_primary_key(n_records, n_table)
    IN  /\ pk # None
        /\ \A i \in 1..Len(n_records) :
               /\ DictGet(n_records[i], pk)[1] = "str"
               /\ ~HasLinkField(O(n_records[i]))
        /\ \A i, j \in 1..Len(n_records) :
               i # j => DictGet(n_records[i], pk) # DictGet(n_records[j], pk)

\* (parent_id, idx); a table without idx column has null there in every row
LinkKey(row) == <<DictGet(row, K_parent_id), DictGet(row, K_idx)>>

\* C6: in every satellite table, also those two or more levels deep, no two
\* records share (parent_id, idx) when the parent keys are distinct.
C6_LinkKeyUnique ==
    (NormReturned /\ DistinctParents) =>
        \A t \in TablesOf(n_result) : \A i, j \in 1..Len(t[2]) :
            i # j => LinkKey(t[2][i]) # LinkKey(t[2][j])

-----------------------------------------------------------------------------
(* Claims about Fidoo7Driver.read and read_batched, checked under          *)
(* SpecFetch.                                                              *)

\* C2: when the first request is answered with a page of records and a
\* continuation token, read_batched issues a second request, and when that
\* one is answered with a page and no token it has issued exactly two
\* requests and yielded exactly two batches.
C2_TwoPagesTwoRequests ==
    (f_mode = "batched" /\ f_pc = "done" /\ Len(f_log) >= 1 /\ f_log[1].resp = PageTok) =>
        /\ Len(f_log) >= 2
        /\ f_log[2].resp = PageLast => (Len(f_log) = 2 /\ Len(f_yielded) = 2)

\* C7: a read whose every request failed transiently was retried at most
\* the configured budget, raised, and its error names the endpoint and the
\* number of attempts made.
C7_ExhaustionRaisesWithAttempts ==
    (/\ f_mode = "read" /\ f_pc = "done" /\ f_arg >= 0 /\ Len(f_log) >= 1
     /\ \A i \in 1..Len(f_log) : f_log[i].resp \in TransientFailures) =>
        /\ Len(f_log) - 1 <= f_arg
        /\ f_result.kind = "raise"
        /\ {"endpoint", "attempts"} \subseteq f_result.mentions

-----------------------------------------------------------------------------
(* Claims about a run of main(), checked under Spec.                       *)

Calls == 1..Len(m_hist)
IsPrimaryCall(c) == c.phase = "primary"
IsDependentCall(c) == c.phase = "dependent"

\* how the server's script for one id ends when it is read on its own
ServedFor(script) == ReadScript(script, 1, RetryBudget(MainMaxRetries), MainMaxRetries).r

\* the records of a call that carry the source id
FetchedFor(c, id_value) ==
    LET key == K_source_ \o DEPENDENT_ENDPOINTS[c.idx][2].source_id_field
    IN  {f \in 1..Len(c.fetched) : DictGet(c.fetched[f], key) = id_value}

\* C3: when the fetch for one source id fails on every attempt, the
\* dependent resolver still fetches for the remaining ids, and its result
\* holds the records returned for every id whose fetch succeeded.
C3_OtherIdsStillResolved ==
    \A h \in Calls :
        LET c == m_hist[h]
        IN  (/\ IsDependentCall(c)
             /\ \E k \in 1..Len(c.ids) : ServedFor(c.answers[c.ids[k]]).kind = "raise") =>
                \A k \in 1..Len(c.ids) :
                    LET served == ServedFor(c.answers[c.ids[k]])
                    IN  (served.kind = "ok" /\ TruthyJson(served.batch)) =>
                            Cardinality(FetchedFor(c, c.ids[k])) = Len(served.batch[2])

\* C4: a failure while fetching, normalizing or staging one requested
\* object type in the primary phase is caught, the type is recorded with
\* count 0, and every later type of the request is still processed.
C4_PrimaryFailureIsolated ==
    \A h \in Calls :
        LET c == m_hist[h]
        IN  (IsPrimaryCall(c) /\ c.raised # "") =>
                /\ (\A h2 \in Calls : h2 > h => m_hist[h2].obj # c.obj) =>
                        /\ c.obj \in DOMAIN m_object_counts
                        /\ m_object_counts[c.obj] = 0
                /\ m_pc # "primary" =>
                        \A i \in (c.idx + 1)..Len(m_objects) :
                            IsPrimary(m_objects[i]) =>
                                \E h2 \in Calls : /\ IsPrimaryCall(m_hist[h2])
                                                  /\ m_hist[h2].idx = i

\* a type failed in staging and a later type of the request was exported
C4_Witness ==
    /\ m_pc = "exit0"
    /\ \E h \in Calls, h2 \in Calls :
          /\ IsPrimaryCall(m_hist[h]) /\ IsPrimaryCall(m_hist[h2])
          /\ m_hist[h].raised = "duckdb.Error"
          /\ m_hist[h2].idx > m_hist[h].idx
          /\ m_hist[h2].count > 0
          /\ m_object_counts[m_hist[h].obj] = 0

\* two exports of the same type that both completed on the same dataset
SameExportTwice(h1, h2) ==
    /\ h1 < h2
    /\ IsPrimaryCall(m_hist[h1]) /\ IsPrimaryCall(m_hist[h2])
    /\ m_hist[h1].obj = m_hist[h2].obj
    /\ m_hist[h1].raised = "" /\ m_hist[h2].raised = ""
    /\ m_hist[h1].wrote # {}
    /\ m_hist[h1].fetched = m_hist[h2].fetched

\* C8: exporting an object type twice on the same staging store against an
\* unchanged dataset leaves the main table and every satellite table with
\* exactly the rows of the first export: rows are replaced, not appended.
C8_ReexportReplaces ==
    \A h1 \in Calls, h2 \in Calls :
        SameExportTwice(h1, h2) => m_hist[h2].written = m_hist[h1].written

\* the same type was exported twice, with a satellite table
C8_Witness ==
    \E h1 \in Calls, h2 \in Calls :
        /\ SameExportTwice(h1, h2)
        /\ Cardinality(m_hist[h2].wrote) > 1
        /\ \A t \in m_hist[h2].wrote : Len(m_hist[h2].written[t]) > 0

\* C9: when a run reaches the summary, object_counts has an entry for
\* every object type named in the request.
C9_SummaryListsEveryRequested ==
    m_pc \in {"summary", "exit0"} =>
        \A i \in 1..Len(m_objects) : m_objects[i] \in DOMAIN m_object_counts

\* C10: once the driver is constructed and the staging store opened, no
\* failure in the primary, dependent or export phase makes the run fail.
C10_NoPhaseFailureFailsTheRun ==
    (m_opened /\ m_pc = "exit1") => m_pending = "OSError"

\* a step of main() enters a phase only from the end of the phase before it
PhasesInOrder ==
    /\ m_pc' = "primary" => m_pc \in {"start", "primary"}
    /\ m_pc' = "dependent" =>
          \/ m_pc = "dependent"
          \/ m_pc = "primary" /\ m_i > Len(m_objects) /\ m_include_dependent
    /\ m_pc' = "export" =>
          \/ m_pc = "export"
          \/ m_pc = "dependent" /\ m_i > Len(DEPENDENT_ENDPOINTS)
          \/ m_pc = "primary" /\ m_i > Len(m_objects) /\ ~m_include_dependent
    /\ m_pc' = "finally" => m_pc \in {"export", "finally"}
    /\ Len(m_hist') > Len(m_hist) /\ IsPrimaryCall(m_hist'[Len(m_hist')]) =>
          \A h \in Calls : IsPrimaryCall(m_hist[h])

\* C11: a run that opened the staging store goes through the primary
\* phase, the dependent phase (when enabled) and the export phase in that
\* order; no dependent object is resolved before every requested primary
\* object was processed, and the export phase is always reached, also when
\* object types failed before it.
C11_PhasesInOrderExportReached ==
    /\ [][PhasesInOrder]_vars
    /\ (m_pc = "primary") ~> (m_pc = "export")

\* the export phase is reached after a failed primary export and a
\* dependent resolution
C11_Witness ==
    /\ m_pc = "export"
    /\ \E h \in Calls : IsPrimaryCall(m_hist[h]) /\ m_hist[h].raised # ""
    /\ \E h \in Calls : IsDependentCall(m_hist[h])

-----------------------------------------------------------------------------
(* Claims about the export phase, checked under SpecSink.                  *)

\* the export phase has run and the store is still open
ExportRan == m_pc = "finally"
SinkTables == {e.table : e \in m_sink}

\* C12: in the export phase a staging table with zero rows is never passed
\* to the tabular sink.
C12_EmptyTableNotExported ==
    ExportRan => \A t \in DOMAIN m_store : Len(m_store[t]) = 0 => t \notin SinkTables

\* the export ran to its end on a store with a table without rows and one
\* with rows, and the latter reached the sink
C12_Witness ==
    /\ ExportRan
    /\ m_pending = ""
    /\ \E t \in DOMAIN m_store : Len(m_store[t]) = 0
    /\ \E t \in DOMAIN m_store : Len(m_store[t]) > 0 /\ t \in SinkTables

-----------------------------------------------------------------------------
(* Claims about the dependent phase, checked under Spec.                   *)

ConfigOf(c) == DEPENDENT_ENDPOINTS[c.idx][2]

\* what the server holds for one id: the records of all its pages, tagged
\* with the id
AllPagesFor(config, id_value, script) ==
    LET records == Concat([i \in 1..Len(script) |->
                       RecordsOf(_parse_response(script[i].body))])
    IN  [i \in 1..Len(records) |->
            DictSet(records[i], K_source_ \o config.source_id_field, id_value)]

Healthy(script) == \A i \in 1..Len(script) : script[i].fail = "none" /\ script[i].status = 200

\* C13: the dependent resolver fetches once per distinct non-null source
\* id, through the paginated fetcher, and its merged output is the
\* concatenation of the records of every id, each tagged with
\* _source_<sourceKeyField> = the id.
C13_MergedOutputIsAllPagesPerId ==
    \A h \in Calls :
        LET c == m_hist[h]
        IN  (IsDependentCall(c) /\ \A k \in 1..Len(c.ids) : Healthy(c.answers[c.ids[k]])) =>
                c.fetched = Concat([k \in 1..Len(c.ids) |->
                                AllPagesFor(ConfigOf(c), c.ids[k], c.answers[c.ids[k]])])

\* C14: a dependent object type whose source table is not in the staging
\* store is skipped with count 0, without any fetch, and the run goes on.
C14_AbsentSourceSkipped ==
    \A h \in Calls :
        LET c == m_hist[h]
        IN  (IsDependentCall(c) /\ ConfigOf(c).source_table \notin c.tables) =>
                /\ c.raised = "" /\ c.count = 0
                /\ c.ids = <<>> /\ c.fetched = <<>>
                /\ c.obj \in DOMAIN m_object_counts /\ m_object_counts[c.obj] = 0
                /\ m_pc \notin {"dependent", "finally", "exit1"} =>
                       \A j \in 1..Len(DEPENDENT_ENDPOINTS) :
                           SourceRequested(DEPENDENT_ENDPOINTS[j][2]) =>
                               \E h2 \in Calls : /\ IsDependentCall(m_hist[h2])
                                                 /\ m_hist[h2].idx = j

\* the primary export of expense failed, expense_item was skipped, and the
\* run ended well
C14_Witness ==
    /\ m_pc = "exit0"
    /\ \E h \in Calls :
          /\ IsDependentCall(m_hist[h])
          /\ ConfigOf(m_hist[h]).source_table \notin m_hist[h].tables
          /\ m_hist[h].count = 0
    /\ \E h \in Calls : IsPrimaryCall(m_hist[h]) /\ m_hist[h].raised # ""
                        /\ m_hist[h].obj = T_expense

-----------------------------------------------------------------------------
(* Further claims about the driver, checked under SpecFetch.               *)

\* C15: read_batched stops only at a response without continuation token:
\* after a response with an empty batch and a token the iteration goes on,
\* and the next request carries that token.
C15_EmptyTokenedContinues ==
    f_mode = "batched" =>
        \A i \in 1..Len(f_log) :
            f_log[i].resp = EmptyTok =>
                /\ i = Len(f_log) => f_pc = "sending"
                /\ i < Len(f_log) =>
                       f_log[i + 1].offset = DictGet(EmptyTok.body[2], K_nextOffsetToken)

\* malformed request, permission denied, not found
NonTransient ==
    {Http(400, FALSE, Null), Http(401, FALSE, Null), Http(403, FALSE, Null),
     Http(404, FALSE, Null)}

\* C16: a read answered with a non-transient failure (400, 401, 403, 404)
\* raises its error at once: that request is the last one of the call, and
\* the only one when it is the first answer.
C16_NonTransientNotRetried ==
    \A i \in 1..Len(f_log) :
        f_log[i].resp \in NonTransient =>
            /\ i = Len(f_log)
            /\ f_pc = "done"
            /\ f_result.kind = "raise"
            /\ f_result.cls \in {"DriverError", "AuthenticationError", "ObjectNotFoundError"}

\* a driver with retries configured got 404 on its first request and raised
C16_Witness ==
    /\ f_mode = "read" /\ f_pc = "done" /\ f_arg > 0
    /\ Len(f_log) = 1
    /\ f_log[1].resp = Http(404, FALSE, Null)
    /\ f_result.cls = "ObjectNotFoundError"

\* C17: a read, and so every request of read_batched, with a page size
\* above the maximum of 100 raises a validation error and sends no request.
C17_OversizeRejected ==
    f_limit > 100 =>
        /\ f_log = <<>>
        /\ f_pc # "sending"
        /\ f_pc = "done" => f_result.kind = "raise" /\ f_result.cls = "ValidationError"

\* read_batched was asked for pages of 101 and raised without a request
C17_Witness ==
    /\ f_mode = "batched" /\ f_pc = "done"
    /\ f_limit = 101
    /\ f_result.cls = "ValidationError"
    /\ f_log = <<>>

-----------------------------------------------------------------------------
(* Further claims about extract_nested, checked under SpecNorm.            *)

\* C18: the record {"id": "u1", "tags": ["a","b"], "address": {"city":
\* "Prague"}} normalized as table user gives the flat row {id: "u1"}, the
\* satellite user__tags with (u1, 0, "a") and (u1, 1, "b"), the satellite
\* user__address with (u1, city "Prague"), and no other table.
C18_WorkedExample ==
    (n_pc = "done" /\ n_records = <<ExampleRecord>> /\ n_table = T_user) =>
        /\ n_result.err = "none"
        /\ n_result.main = << << <<K_id, S("u1")>> >> >>
        /\ Len(n_result.nested) = 2
        /\ DictKeys(n_result.nested) = <<T_user \o Sep \o K_tags, T_user \o Sep \o K_address>>
        /\ DictGet(n_result.nested, T_user \o Sep \o K_tags) =
              << << <<K_parent_id, S("u1")>>, <<K_idx, I(0)>>, <<K_value, S("a")>> >>,
                 << <<K_parent_id, S("u1")>>, <<K_idx, I(1)>>, <<K_value, S("b")>> >> >>
        /\ DictGet(n_result.nested, T_user \o Sep \o K_address) =
              << << <<K_parent_id, S("u1")>>, <<K_city, S("Prague")>> >> >>

\* the example was normalized
C18_Witness ==
    /\ n_pc = "done" /\ n_records = <<ExampleRecord>> /\ n_table = T_user
    /\ n_result.err = "none"
    /\ Len(n_result.nested) = 2

\* the fields of the first record, and the candidates in the order of the claim
FirstFields == {n_records[1][i][1] : i \in 1..Len(n_records[1])}
KeyCandidates == <<n_table \o K_Id, RStripS(n_table) \o K_Id, K_id, K_Id>>
IdSuffixed(k) == EndsWith(k, K_Id)

\* every satellite row of the call links to its record through field k
\* (each record of a key batch has one row in the satellite of field f)
LinkedThrough(k) ==
    LET rows == DictGet(n_result.nested, n_table \o Sep \o K_f)
    IN  /\ Len(rows) = Len(n_records)
        /\ \A i \in 1..Len(rows) :
              DictGet(rows[i], K_parent_id) =
                  (IF k = None THEN Null ELSE DictGet(n_records[i], k))

\* C19: without a given key field, the key is the first of {tableName}Id,
\* {singularized tableName}Id, id, Id that is a field of the records, else
\* the first field whose name ends in Id; with none, the table has no key
\* and the satellite records get a null parent_id instead of an error.
C19_KeyDetectionOrder ==
    (n_pc = "done" /\ n_records \in KeyBatches) =>
        /\ n_result.err = "none"
        /\ \A j \in 1..Len(KeyCandidates) :
              (/\ KeyCandidates[j] \in FirstFields
               /\ \A j2 \in 1..(j - 1) : KeyCandidates[j2] \notin FirstFields) =>
                  LinkedThrough(KeyCandidates[j])
        /\ (\A j \in 1..Len(KeyCandidates) : KeyCandidates[j] \notin FirstFields) =>
              /\ \A i \in 1..Len(n_records[1]) :
                    (/\ IdSuffixed(n_records[1][i][1])
                     /\ \A i2 \in 1..(i - 1) : ~IdSuffixed(n_records[1][i2][1])) =>
                        LinkedThrough(n_records[1][i][1])
              /\ (\A i \in 1..Len(n_records[1]) : ~IdSuffixed(n_records[1][i][1])) =>
                    LinkedThrough(None)

\* table users, records with id before userId: the key is userId
C19_Witness ==
    /\ n_pc = "done" /\ n_table = T_users
    /\ n_records = <<KeyRecord(1, <<3, 2>>), KeyRecord(2, <<3, 2>>)>>
    /\ LinkedThrough(T_user \o K_Id)
    /\ ~LinkedThrough(K_id)

RECURSIVE SumOver(_, _)
SumOver(f(_), seq) == IF seq = <<>> THEN 0 ELSE f(seq[1]) + SumOver(f, Tail(seq))

\* the satellite records one field value stands for: one per non-empty
\* nested object, one per element of a non-empty array, and the same again
\* for the nested values inside them
RECURSIVE Occurrences(_)
Occurrences(v) ==
    LET InField(e) == Occurrences(e[2])
        InItem(item) == 1 + (IF IsDict(item) THEN SumOver(InField, item[2]) ELSE 0)
        InValue(item) == 1 + Occurrences(item)
    IN  IF IsDict(v) /\ Truthy(v) THEN 1 + SumOver(InField, v[2])
        ELSE IF IsList(v) /\ Truthy(v)
        THEN (IF IsDict(v[2][1]) THEN SumOver(InItem, v[2]) ELSE SumOver(InValue, v[2]))
        ELSE 0

OccurrencesInBatch(records) ==
    LET InField(e) == Occurrences(e[2])
        InRecord(record) == SumOver(InField, record)
    IN  SumOver(InRecord, records)

TotalRows(nested) ==
    LET RowsOf(table) == Len(table[2])
    IN  SumOver(RowsOf, nested)

\* C20: for every input batch, the rows of all satellite tables returned by
\* extract_nested together are as many as the nested object/array
\* occurrences of the batch, counted recursively.
C20_RowsMatchOccurrences ==
    n_pc = "done" =>
        /\ n_result.err = "none"
        /\ TotalRows(n_result.nested) = OccurrencesInBatch(n_records)

\* the same count on the batches for which extract_nested returns and in
\* which no two nested fields share a satellite name
RowsMatchWhenReturned ==
    (n_pc = "done" /\ n_result.err = "none" /\ n_records \notin CollisionBatches) =>
        TotalRows(n_result.nested) = OccurrencesInBatch(n_records)

\* the satellite records the field named f of these records stands for
SatelliteRecords(rows, f) ==
    Concat([i \in 1..Len(rows) |->
        IF DictHas(rows[i], f) /\ IsNestedValue(DictGet(rows[i], f))
        THEN NestedRecordsOf(DictGet(rows[i], f), Null)
        ELSE <<>>])

\* a nested field at any depth, as the field names from the record down to it
PathFields == {K_f, K_g, K_a, K_a__g, K_value, K_tags, K_address}
Paths == SeqsUpTo(PathFields, 2) \ {<<>>}

RECURSIVE RecordsAt(_, _)
RecordsAt(rows, path) ==
    IF Len(path) = 1 THEN SatelliteRecords(rows, path[1])
    ELSE RecordsAt(SatelliteRecords(rows, path[1]), Tail(path))

RECURSIVE NameOf(_, _)
NameOf(table_name, path) ==
    IF path = <<>> THEN table_name
    ELSE NameOf(table_name \o Sep \o path[1], Tail(path))

PresentPaths == {p \in Paths : RecordsAt(n_records, p) # <<>>}

TableNames == {PRIMARY_ENDPOINTS[i][1] : i \in 1..Len(PRIMARY_ENDPOINTS)}
                 \cup {DEPENDENT_ENDPOINTS[i][1] : i \in 1..Len(DEPENDENT_ENDPOINTS)}

\* C21: every satellite table name returned by extract_nested stands for
\* exactly one (parent table, field) pair and is no primary table name: two
\* different nested fields, at any depth, never share a satellite table and
\* never overwrite one another's.
C21_SatelliteNamesUnique ==
    NormReturned =>
        /\ \A p \in PresentPaths, q \in PresentPaths :
              p # q => NameOf(n_table, p) # NameOf(n_table, q)
        /\ \A p \in PresentPaths :
              /\ DictHas(n_result.nested, NameOf(n_table, p))
              /\ Len(DictGet(n_result.nested, NameOf(n_table, p))) =
                     Len(RecordsAt(n_records, p))
        /\ \A i \in 1..Len(n_result.nested) : n_result.nested[i][1] \notin TableNames

\* the rows of every nested field are in its table, on batches without a
\* field name that holds the separator
RowsKeptWithoutSeparator ==
    (NormReturned /\ n_records \notin CollisionBatches) =>
        \A p \in PresentPaths :
            /\ DictHas(n_result.nested, NameOf(n_table, p))
            /\ Len(DictGet(n_result.nested, NameOf(n_table, p))) =
                   Len(RecordsAt(n_records, p))

IsEmptyContainer(v) == (IsDict(v) \/ IsList(v)) /\ ~Truthy(v)

\* C22: a field whose value is an empty object or an empty array is in the
\* flat record as null and adds no satellite table and no satellite row; every
\* scalar field value is in the flat record unchanged.
C22_EmptyIsNullScalarsKept ==
    NormReturned =>
        /\ Len(n_result.main) = Len(n_records)
        /\ \A i \in 1..Len(n_records) : \A j \in 1..Len(n_records[i]) :
              LET k == n_records[i][j][1]
                  v == n_records[i][j][2]
                  name == n_table \o Sep \o k
                  others == Len(SatelliteRecords(n_records, k))
              IN  /\ IsEmptyContainer(v) =>
                        /\ DictHas(n_result.main[i], k)
                        /\ DictGet(n_result.main[i], k) = Null
                        /\ IF others = 0 THEN ~DictHas(n_result.nested, name)
                           ELSE Len(DictGet(n_result.nested, name)) = others
                  /\ IsScalarOrNull(v) =>
                        /\ DictHas(n_result.main[i], k)
                        /\ DictGet(n_result.main[i], k) = v

\* a batch with an empty object, an empty array and a string was normalized
C22_Witness ==
    /\ NormReturned
    /\ \E i \in 1..Len(n_records) : \E j \in 1..Len(n_records[i]) :
          n_records[i][j][2] = O(<<>>)
    /\ \E i \in 1..Len(n_records) : \E j \in 1..Len(n_records[i]) :
          n_records[i][j][2] = A(<<>>)
    /\ \E i \in 1..Len(n_records) : \E j \in 1..Len(n_records[i]) :
          n_records[i][j][2][1] = "str"
    /\ n_result.nested = <<>>

\* a field that is empty in one record and filled in the other gave one row
C22_WitnessMixed ==
    /\ NormReturned
    /\ Len(n_records) = 2
    /\ n_records[1][2] = <<K_f, A(<<>>)>>
    /\ Len(DictGet(n_result.nested, n_table \o Sep \o K_f)) = 1

\* the waits between the requests of one read: the wait after request n
WaitsOf(log) == [n \in 1..(Len(log) - 1) |-> SleepAfter(log[n].resp, n)]

RateLimited == {Http(429, FALSE, Null), Http(429, TRUE, Null)}

\* C23: a read whose every attempt is rate limited, with base delay 1 s and
\* a budget of max_retries, waits base * 2^(n-1) seconds after attempt n
\* (1 s, then 2 s), or the advertised delay when the response has one, and
\* raises when the budget is used up (the budget read as attempts or as
\* retries).
C23_BackoffDoubles ==
    (/\ f_mode = "read" /\ f_pc = "done" /\ f_arg >= 1 /\ Len(f_log) >= 1
     /\ \A i \in 1..Len(f_log) : f_log[i].resp \in RateLimited) =>
        /\ f_result.kind = "raise"
        /\ Len(f_log) \in {f_arg, f_arg + 1}
        /\ \A n \in 1..(Len(f_log) - 1) :
              \/ WaitsOf(f_log)[n].kind = "retry_after" /\ f_log[n].resp.retry_after
              \/ /\ WaitsOf(f_log)[n].kind = "backoff"
                 /\ WaitsOf(f_log)[n].seconds = backoff_factor * 2 ^ (n - 1)

\* the waits the Retry strategy makes: none after the first failure, then
\* 2 s, 4 s, and one request more than max_retries
WaitsOfTheStrategy ==
    (/\ f_mode = "read" /\ f_pc = "done" /\ f_arg >= 1 /\ Len(f_log) >= 1
     /\ \A i \in 1..Len(f_log) : f_log[i].resp = Http(429, FALSE, Null)) =>
        /\ f_result.kind = "raise"
        /\ Len(f_log) = f_arg + 1
        /\ WaitsOf(f_log) = [n \in 1..f_arg |->
              [kind |-> "backoff", seconds |-> IF n = 1 THEN 0 ELSE 2 ^ (n - 1)]]

\* the tables of a type: its main table and its satellite tables
IsTableOf(t, object_type) == t = object_type \/ StartsWith(t, object_type \o Sep)

\* the last export call returned and the store is as it left it
LastCallReturned ==
    /\ m_pc \in {"primary", "dependent", "export"}
    /\ m_hist # <<>>
    /\ m_hist[Len(m_hist)].raised = ""

\* C24: after an export call for a type returns on a store that holds tables
\* of an earlier export of that type, every table of the type holds only the
\* rows this call derived from the records it fetched: a call that fetched
\* no record, or records without a nested field, leaves no earlier table.
C24_NoTableOfEarlierExport ==
    LastCallReturned =>
        LET c == m_hist[Len(m_hist)]
        IN  \A t \in DOMAIN m_store :
                IsTableOf(t, c.obj) =>
                    /\ t \in c.wrote
                    /\ m_store[t] = c.written[t]

\* the same on the first export of a type in a run
FirstExportOwnsItsTables ==
    (LastCallReturned /\ \A h \in 1..(Len(m_hist) - 1) :
                             m_hist[h].obj # m_hist[Len(m_hist)].obj) =>
        LET c == m_hist[Len(m_hist)]
        IN  \A t \in DOMAIN m_store :
                IsTableOf(t, c.obj) => t \in c.wrote /\ m_store[t] = c.written[t]

RowsIn(store, t) == IF t \in DOMAIN store THEN Len(store[t]) ELSE 0

\* C25: when the export phase starts, object_counts[type] is the number of
\* rows of the staging table of that name (0 when there is none); a type
\* recorded with 0 has no rows under its name or its satellite names.
C25_CountsMatchStagedRows ==
    (m_pc = "export" /\ m_sink = {} /\ m_pending = "") =>
        \A type \in DOMAIN m_object_counts :
            /\ m_object_counts[type] = RowsIn(m_store, type)
            /\ m_object_counts[type] = 0 =>
                  \A t \in DOMAIN m_store : IsTableOf(t, type) => m_store[t] = <<>>

\* the key main() declares for the table staged from the flat records
DeclaredKey == get_primary_key_for_table(ColumnsOf(n_result.main), n_table)

\* the field extract_nested links the satellite records through
LinkField ==
    LET k == detect_primary_key(n_records, n_table)
    IN  IF k = None THEN <<>> ELSE <<k>>

\* C26: for every primary table and every set of field names, the key
\* get_primary_key_for_table declares for it is the field detect_primary_key
\* chose for the parent_id of its satellite records.
C26_DeclaredKeyIsLinkField ==
    (NormReturned /\ n_records # <<>> /\ ~Contains(n_table, Sep)) =>
        DeclaredKey = LinkField

\* the two agree on the batches of C19: tables user and users, the same
\* fields in every record, no field name starting with an underscore
KeysAgreeOnKeyBatches ==
    (NormReturned /\ n_records \in KeyBatches) => DeclaredKey = LinkField

\* how the paginated fetch of a primary call ended
FetchOf(c) == ReadBatchedScript(c.answers, 1, MAX_PAGE_SIZE, <<>>, MainMaxRetries)

\* what the driver raises for a rate-limited or timed-out fetch
RateLimitOrTimeout == {"RateLimitError", "TimeoutError", "ConnectionError"}

\* a step that is a primary export call, with the call as the history has it
PrimaryCallStep ==
    /\ Len(m_hist') = Len(m_hist) + 1
    /\ IsPrimaryCall(m_hist'[Len(m_hist')])

NotFoundReturnsZero ==
    LET c == m_hist'[Len(m_hist')]
    IN  (PrimaryCallStep /\ FetchOf(c).raised = "ObjectNotFoundError") =>
            /\ c.raised = "" /\ c.count = 0
            /\ m_store' = m_store
            /\ m_object_counts'[c.obj] = 0
            /\ m_pending' = m_pending /\ m_pc' = m_pc

FetchFailurePropagates ==
    LET c == m_hist'[Len(m_hist')]
    IN  (PrimaryCallStep /\ FetchOf(c).raised \in RateLimitOrTimeout) =>
            /\ c.raised = FetchOf(c).raised
            /\ m_store' = m_store

\* C27: when the paginated fetch of export_primary_to_duckdb ends in
\* not-found, the call returns 0, raises nothing and neither writes nor drops
\* a staging table; when it ends rate limited or timed out, the failure
\* reaches the orchestrator and likewise no table is written or dropped.
C27_NotFoundIsZeroOthersPropagate ==
    [][NotFoundReturnsZero /\ FetchFailurePropagates]_vars

\* a second export met 404 on a store that held tables
C27_Witness ==
    \E h \in Calls :
        /\ IsPrimaryCall(m_hist[h])
        /\ m_hist[h].answers = <<Http(404, FALSE, Null)>>
        /\ m_hist[h].tables # {}
        /\ m_hist[h].raised = "" /\ m_hist[h].count = 0
        /\ h = Len(m_hist) /\ m_pc = "primary" /\ DOMAIN m_store = m_hist[h].tables

\* a second export timed out on a store that held tables
C27_WitnessTimeout ==
    \E h \in Calls :
        /\ IsPrimaryCall(m_hist[h])
        /\ m_hist[h].tables # {}
        /\ m_hist[h].raised = "TimeoutError"
        /\ h = Len(m_hist) /\ m_pc = "primary" /\ DOMAIN m_store = m_hist[h].tables

\* main() has returned or exited
Exited == m_pc \in {"exit0", "exit1"}

\* a step that writes the state file
StateWritten == Len(m_state') # Len(m_state)

\* the state file is written after the three phases and the cleanup, with
\* no exception pending, and not a second time
StateWrittenOnceAtTheEnd ==
    StateWritten =>
        /\ m_pc = "state" /\ m_pending = "" /\ m_closed
        /\ m_state = <<>>
        /\ m_state' = <<m_object_counts>>

\* update_state is reached from the cleanup only, after an export phase that
\* wrote every staged table with rows and left no exception pending
StateAfterThePhases ==
    m_pc' = "state" =>
        /\ m_pc = "finally" /\ m_pending = ""
        /\ m_sink = export_duckdb_to_csv(m_store, TRUE, None)

\* C28: on every exit path of main() after the staging store was opened, the
\* connection and the driver are closed and the staging file is removed
\* before main returns or exits; the state file is written only when the
\* three phases completed, and at most once in a run.
C28_ClosedOnExitStateOnce ==
    /\ []((Exited /\ m_opened) => (m_closed /\ m_store = EmptyStore))
    /\ []((m_pc \in {"state", "summary"}) => (m_closed /\ m_store = EmptyStore))
    /\ []((Exited /\ m_state # <<>>) => m_pending = "")
    /\ [](Len(m_state) <= 1)
    /\ [][PhasesInOrder /\ StateAfterThePhases /\ StateWrittenOnceAtTheEnd]_vars

\* the export phase failed on a store with tables: closed, removed, no state
C28_Witness ==
    /\ m_pc = "exit1" /\ m_opened /\ m_pending = "Exception"
    /\ m_closed /\ m_store = EmptyStore
    /\ m_hist # <<>> /\ m_hist[Len(m_hist)].wrote # {}
    /\ m_state = <<>>

\* C29: for every max_retries >= 0 given to the driver, the retries of one
\* request (the requests of a read after its first) never exceed
\* max_retries; with max_retries = 0 every request is sent exactly once.
C29_RetriesWithinMaxRetries ==
    (f_mode = "read" /\ f_arg >= 0) =>
        /\ Len(f_log) <= 1 + f_arg
        /\ (f_arg = 0 /\ f_pc = "done" /\ ~LimitRejected(f_limit)) => Len(f_log) = 1

\* the same for a driver constructed with max_retries >= 1
RetriesWithinPositiveMaxRetries ==
    (f_mode = "read" /\ f_arg >= 1) => Len(f_log) <= 1 + f_arg

RECURSIVE SumCounts(_, _)
SumCounts(counts, types) ==
    IF types = {} THEN 0
    ELSE LET type == CHOOSE x \in types : TRUE
         IN  counts[type] + SumCounts(counts, types \ {type})

\* C30: when the dependent phase has ended (the export phase starts),
\* total_records is the sum of the counts in object_counts, for every
\* request list, also one that names a type twice or names unknown types.
C30_TotalIsSumOfCounts ==
    m_pc = "export" =>
        m_total_records = SumCounts(m_object_counts, DOMAIN m_object_counts)

\* the same for request lists that name no type twice
TotalIsSumWithoutDuplicates ==
    (m_pc = "export" /\ \A i, j \in 1..Len(m_objects) :
                            i # j => m_objects[i] # m_objects[j]) =>
        m_total_records = SumCounts(m_object_counts, DOMAIN m_object_counts)

====
